---- MODULE Spec2Model ----
(***************************************************************************)
(* Model of winutils/scripts/validate_paths.py: the PathValidator test      *)
(* orchestrator and main().  One run of main() is one behaviour.  The       *)
(* external world (cargo, the file system, the operator's Ctrl-C) supplies  *)
(* the nondeterminism.                                                      *)
(***************************************************************************)
EXTENDS Integers, Sequences, FiniteSets, TLC

\* Largest number of *.rs files examples_dir.glob() yields in the model.
MaxExamples == 1

VARIABLES
    pc,             \* position of the run inside main()
    flags,          \* parsed args: performance, git_bash, full_suite
    root_exists,    \* self.winpath_dir.exists()
    validator,      \* self.test_results and the per-check lines printed
    success,        \* run_validation_suite's accumulator, then main's success
    cur,            \* name of the check whose method is executing
    retval,         \* value the executing test method returns
    all_passed,     \* the test method's local "all_passed"
    i,              \* loop position in the test method's for loop
    n,              \* number of files the examples glob yielded
    dir_exists,     \* result of the test method's directory exists() call
    calls,          \* cargo invocations made by the executing test method
    cargo_calls,    \* number of subprocess.run calls made in the whole run
    report,         \* the report file: <<>> or <<report_data>>
    report_success, \* value generate_report returned
    exit_code,      \* value main returned (-1 while it has not returned)
    aborted         \* "" or the except clause of main that ended the run

locals == <<all_passed, i, n, dir_exists, calls>>
mainv == <<flags, root_exists, report, report_success, exit_code, aborted>>
vars == <<pc, validator, success, cur, retval, cargo_calls, locals, mainv>>

----------------------------------------------------------------------------
\* Texts

OUT == "<stdout+stderr>"
TIMED_OUT == "Command timed out"
EXC == "<str(e)>"
NoMessage == <<>>

BASIC == "Basic Compilation"
UNIT == "Unit Tests"
INTEGRATION == "Integration Tests"
GITBASH == "Git Bash Path Handling"
PERFORMANCE == "Performance Tests"
EXAMPLES == "Example Programs"
DOCUMENTATION == "Documentation Tests"
EXECUTABLE == "Executable Path Reporting"
PATTERNS == "Path Pattern Validation"

test_files == <<"basic_tests", "wsl_path_tests", "git_bash_tests", "integration_tests">>
test_patterns == <<"git_bash_mangled_paths", "git_bash_complex_paths",
                   "git_bash_edge_cases", "wsl_vs_git_bash_differentiation">>

----------------------------------------------------------------------------
\* PathValidator

InitValidator ==
    [test_results |-> [total_tests |-> 0, passed_tests |-> 0, failed_tests |-> 0,
                       errors |-> <<>>, performance |-> {}],
     stdout |-> <<>>]

start_test(v, test_name) ==
    [v EXCEPT !.stdout = Append(@, [log |-> "info", test |-> test_name]),
              !.test_results.total_tests = @ + 1]

\* complete_test that counts a failure without recording its error entry
complete_test_DropsError(v, test_name, ok, error_message) ==
    IF ok
    THEN [v EXCEPT !.test_results.passed_tests = @ + 1,
                   !.stdout = Append(@, [log |-> "success", test |-> test_name])]
    ELSE [v EXCEPT !.test_results.failed_tests = @ + 1,
                   !.stdout = Append(@, [log |-> "error", test |-> test_name])]

complete_test(v, test_name, ok, error_message) ==
    IF ok
    THEN [v EXCEPT !.test_results.passed_tests = @ + 1,
                   !.stdout = Append(@, [log |-> "success", test |-> test_name])]
    ELSE [v EXCEPT !.test_results.failed_tests = @ + 1,
                   !.test_results.errors =
                       Append(@, [test |-> test_name, error |-> error_message]),
                   !.stdout = Append(@, [log |-> "error", test |-> test_name])]

\* What subprocess.run did: exit 0, exit non-zero, TimeoutExpired, other Exception.
Outcomes == {"ok", "nonzero", "timeout", "exception"}

run_cargo_command(o) ==
    CASE o = "ok" -> [success |-> TRUE, output |-> OUT]
      [] o = "nonzero" -> [success |-> FALSE, output |-> OUT]
      [] o = "timeout" -> [success |-> FALSE, output |-> TIMED_OUT]
      [] OTHER -> [success |-> FALSE, output |-> EXC]

\* f"{prefix}{output}"
Message(prefix, out) == <<prefix, out>>

\* One cargo invocation by the executing test method; r is the (success,
\* output) pair it assigns, read only by the statements that follow at once.
Invoke(args, r) ==
    /\ calls' = Append(calls, [args |-> args, success |-> r.success])
    /\ cargo_calls' = cargo_calls + 1

\* complete_test(...) followed by the method's return statement.
Finish(test_name, ok, error_message, returned) ==
    /\ validator' = complete_test(validator, test_name, ok, error_message)
    /\ retval' = returned
    /\ pc' = "ret"

Begin(test_name, next) ==
    /\ validator' = start_test(validator, test_name)
    /\ cur' = test_name
    /\ pc' = next
    /\ UNCHANGED <<success, retval, cargo_calls, locals, mainv>>

----------------------------------------------------------------------------
Init ==
    /\ pc = "suite"
    /\ flags \in [performance : BOOLEAN, git_bash : BOOLEAN, full_suite : BOOLEAN]
    /\ root_exists \in BOOLEAN
    /\ validator = InitValidator
    /\ success = TRUE
    /\ cur = ""
    /\ retval = TRUE
    /\ all_passed = TRUE
    /\ i = 0
    /\ n = 0
    /\ dir_exists = TRUE
    /\ calls = <<>>
    /\ cargo_calls = 0
    /\ report = <<>>
    /\ report_success = TRUE
    /\ exit_code = -1
    /\ aborted = ""

\* run_validation_suite without the early return on a missing library root
RunValidationSuite_NoRootCheck ==
    /\ pc = "suite"
    /\ success' = TRUE
    /\ pc' = "bc_start"
    /\ UNCHANGED <<validator, cur, retval, cargo_calls, locals, mainv>>

\* run_validation_suite up to its first test method
RunValidationSuite ==
    /\ pc = "suite"
    /\ IF ~root_exists
       THEN /\ success' = FALSE
            /\ pc' = "report"
       ELSE /\ success' = TRUE
            /\ pc' = "bc_start"
    /\ UNCHANGED <<validator, cur, retval, cargo_calls, locals, mainv>>

\* test_basic_compilation
BasicStart == pc = "bc_start" /\ Begin(BASIC, "bc_debug")

BasicBuild(at, args, prefix, next) ==
    /\ pc = at
    /\ \E o \in Outcomes :
        LET r == run_cargo_command(o) IN
        /\ Invoke(args, r)
        /\ IF ~r.success
           THEN Finish(BASIC, FALSE, Message(prefix, r.output), FALSE)
           ELSE IF next = "ret"
                THEN Finish(BASIC, TRUE, NoMessage, TRUE)
                ELSE /\ pc' = next
                     /\ UNCHANGED <<validator, retval>>
    /\ UNCHANGED <<success, cur, all_passed, i, n, dir_exists, mainv>>

BasicDebug == BasicBuild("bc_debug", "build", "Debug build failed: ", "bc_release")
BasicRelease ==
    BasicBuild("bc_release", "build --release", "Release build failed: ", "bc_all")
BasicAllFeatures ==
    BasicBuild("bc_all", "build --all-features", "All-features build failed: ", "ret")

\* test_unit_tests
UnitStart == pc = "ut_start" /\ Begin(UNIT, "ut_run")

\* test_unit_tests whose failure branch returns without complete_test
UnitRun_ForgetsComplete ==
    /\ pc = "ut_run"
    /\ \E o \in Outcomes :
        LET r == run_cargo_command(o) IN
        /\ Invoke("test --lib", r)
        /\ IF ~r.success
           THEN /\ retval' = FALSE
                /\ pc' = "ret"
                /\ UNCHANGED validator
           ELSE Finish(UNIT, TRUE, NoMessage, TRUE)
    /\ UNCHANGED <<success, cur, all_passed, i, n, dir_exists, mainv>>

UnitRun ==
    /\ pc = "ut_run"
    /\ \E o \in Outcomes :
        LET r == run_cargo_command(o) IN
        /\ Invoke("test --lib", r)
        /\ IF ~r.success
           THEN Finish(UNIT, FALSE, Message("Unit tests failed: ", r.output), FALSE)
           ELSE Finish(UNIT, TRUE, NoMessage, TRUE)
    /\ UNCHANGED <<success, cur, all_passed, i, n, dir_exists, mainv>>

\* test_integration_tests
IntegrationStart == pc = "it_start" /\ Begin(INTEGRATION, "it_all")

IntegrationAll ==
    /\ pc = "it_all"
    /\ \E o \in Outcomes : Invoke("test --test *", run_cargo_command(o))
    /\ all_passed' = TRUE
    /\ i' = 1
    /\ pc' = "it_files"
    /\ UNCHANGED <<validator, success, cur, retval, n, dir_exists, mainv>>

\* the sub-suite loop without "all_passed = False"
IntegrationFileStep_WarnOnly(ok) == all_passed

IntegrationFileStep(ok) == IF ~ok THEN FALSE ELSE all_passed

IntegrationFile ==
    /\ pc = "it_files"
    /\ i <= Len(test_files)
    /\ \E o \in Outcomes :
        LET r == run_cargo_command(o) IN
        /\ Invoke(test_files[i], r)
        /\ all_passed' = IntegrationFileStep(r.success)
    /\ i' = i + 1
    /\ UNCHANGED <<pc, validator, success, cur, retval, n, dir_exists, mainv>>

IntegrationComplete ==
    /\ pc = "it_files"
    /\ i > Len(test_files)
    /\ Finish(INTEGRATION, all_passed, NoMessage, all_passed)
    /\ UNCHANGED <<success, cur, cargo_calls, locals, mainv>>

\* test_examples
ExamplesStart == pc = "ex_start" /\ Begin(EXAMPLES, "ex_exists")

\* test_examples that reports a missing examples directory as a failure
ExamplesExists_AbsentFails ==
    /\ pc = "ex_exists"
    /\ \E e \in BOOLEAN :
        /\ dir_exists' = e
        /\ IF ~e
           THEN Finish(EXAMPLES, FALSE,
                       Message("Examples directory not found", ""), FALSE)
           ELSE /\ pc' = "ex_build"
                /\ UNCHANGED <<validator, retval>>
    /\ UNCHANGED <<success, cur, cargo_calls, all_passed, i, n, calls, mainv>>

ExamplesExists ==
    /\ pc = "ex_exists"
    /\ \E e \in BOOLEAN :
        /\ dir_exists' = e
        /\ IF ~e
           THEN Finish(EXAMPLES, TRUE, NoMessage, TRUE)
           ELSE /\ pc' = "ex_build"
                /\ UNCHANGED <<validator, retval>>
    /\ UNCHANGED <<success, cur, cargo_calls, all_passed, i, n, calls, mainv>>

ExamplesBuild ==
    /\ pc = "ex_build"
    /\ \E o \in Outcomes :
        LET r == run_cargo_command(o) IN
        /\ Invoke("build --examples", r)
        /\ IF ~r.success
           THEN /\ Finish(EXAMPLES, FALSE,
                          Message("Examples build failed: ", r.output), FALSE)
                /\ UNCHANGED <<i, n>>
           ELSE /\ \E k \in 0..MaxExamples : n' = k
                /\ i' = 1
                /\ pc' = "ex_run"
                /\ UNCHANGED <<validator, retval>>
    /\ UNCHANGED <<success, cur, all_passed, dir_exists, mainv>>

ExamplesRun ==
    /\ pc = "ex_run"
    /\ i <= n
    /\ \E o \in Outcomes : Invoke("run --example", run_cargo_command(o))
    /\ i' = i + 1
    /\ UNCHANGED <<pc, validator, success, cur, retval, all_passed, n, dir_exists,
                   mainv>>

ExamplesComplete ==
    /\ pc = "ex_run"
    /\ i > n
    /\ Finish(EXAMPLES, TRUE, NoMessage, TRUE)
    /\ UNCHANGED <<success, cur, cargo_calls, locals, mainv>>

\* test_documentation
DocumentationStart == pc = "doc_start" /\ Begin(DOCUMENTATION, "doc_build")

DocumentationBuild ==
    /\ pc = "doc_build"
    /\ \E o \in Outcomes :
        LET r == run_cargo_command(o) IN
        /\ Invoke("doc --no-deps", r)
        /\ IF ~r.success
           THEN Finish(DOCUMENTATION, FALSE,
                       Message("Doc build failed: ", r.output), FALSE)
           ELSE /\ pc' = "doc_test"
                /\ UNCHANGED <<validator, retval>>
    /\ UNCHANGED <<success, cur, all_passed, i, n, dir_exists, mainv>>

DocumentationTest ==
    /\ pc = "doc_test"
    /\ \E o \in Outcomes : Invoke("test --doc", run_cargo_command(o))
    /\ Finish(DOCUMENTATION, TRUE, NoMessage, TRUE)
    /\ UNCHANGED <<success, cur, all_passed, i, n, dir_exists, mainv>>

\* validate_path_patterns
ValidatePathPatterns ==
    /\ pc = "pv"
    /\ validator' = complete_test(start_test(validator, PATTERNS), PATTERNS, TRUE,
                                  NoMessage)
    /\ cur' = PATTERNS
    /\ retval' = TRUE
    /\ pc' = "ret"
    /\ UNCHANGED <<success, cargo_calls, locals, mainv>>

\* test_git_bash_specific
GitBashStart == pc = "gb_start" /\ Begin(GITBASH, "gb_tests")

GitBashTests ==
    /\ pc = "gb_tests"
    /\ \E o \in Outcomes :
        LET r == run_cargo_command(o) IN
        /\ Invoke("test --test git_bash_tests", r)
        /\ IF ~r.success
           THEN /\ Finish(GITBASH, FALSE,
                          Message("Git Bash tests failed: ", r.output), FALSE)
                /\ UNCHANGED <<all_passed, i>>
           ELSE /\ all_passed' = TRUE
                /\ i' = 1
                /\ pc' = "gb_patterns"
                /\ UNCHANGED <<validator, retval>>
    /\ UNCHANGED <<success, cur, n, dir_exists, mainv>>

GitBashPattern ==
    /\ pc = "gb_patterns"
    /\ i <= Len(test_patterns)
    /\ \E o \in Outcomes :
        LET r == run_cargo_command(o) IN
        /\ Invoke(test_patterns[i], r)
        /\ all_passed' = IF ~r.success THEN FALSE ELSE all_passed
    /\ i' = i + 1
    /\ UNCHANGED <<pc, validator, success, cur, retval, n, dir_exists, mainv>>

\* test_git_bash_specific that records all_passed but returns True
GitBashComplete_ReturnsTrue ==
    /\ pc = "gb_patterns"
    /\ i > Len(test_patterns)
    /\ Finish(GITBASH, all_passed, NoMessage, TRUE)
    /\ UNCHANGED <<success, cur, cargo_calls, locals, mainv>>

GitBashComplete ==
    /\ pc = "gb_patterns"
    /\ i > Len(test_patterns)
    /\ Finish(GITBASH, all_passed, NoMessage, all_passed)
    /\ UNCHANGED <<success, cur, cargo_calls, locals, mainv>>

\* test_performance
PerformanceStart == pc = "pf_start" /\ Begin(PERFORMANCE, "pf_bench")

PerformanceBench ==
    /\ pc = "pf_bench"
    /\ \E o \in Outcomes : Invoke("bench --no-run", run_cargo_command(o))
    /\ pc' = "pf_test"
    /\ UNCHANGED <<validator, success, cur, retval, all_passed, i, n, dir_exists,
                   mainv>>

PerformanceTest ==
    /\ pc = "pf_test"
    /\ \E o \in Outcomes : Invoke("test --release performance", run_cargo_command(o))
    /\ validator' = complete_test(
           [validator EXCEPT !.test_results.performance = @ \cup {"test_suite"}],
           PERFORMANCE, TRUE, NoMessage)
    /\ retval' = TRUE
    /\ pc' = "ret"
    /\ UNCHANGED <<success, cur, all_passed, i, n, dir_exists, mainv>>

\* test_executable_paths
ExecutableStart == pc = "ep_start" /\ Begin(EXECUTABLE, "ep_exists")

ExecutableExists ==
    /\ pc = "ep_exists"
    /\ \E e \in BOOLEAN :
        /\ dir_exists' = e
        /\ IF e
           THEN /\ pc' = "ep_run"
                /\ UNCHANGED <<validator, retval>>
           ELSE Finish(EXECUTABLE, TRUE, NoMessage, TRUE)
    /\ UNCHANGED <<success, cur, cargo_calls, all_passed, i, n, calls, mainv>>

ExecutableRun ==
    /\ pc = "ep_run"
    /\ \E o \in Outcomes :
        Invoke("test --test executable_path_tests", run_cargo_command(o))
    /\ Finish(EXECUTABLE, TRUE, NoMessage, TRUE)
    /\ UNCHANGED <<success, cur, all_passed, i, n, dir_exists, mainv>>

----------------------------------------------------------------------------
\* run_validation_suite: "success &= self.test_x()" and the choice of the next step

GitBashWanted(f) == f.git_bash \/ f.full_suite
PerformanceWanted(f) == f.performance \/ f.full_suite

\* the optional steps gated on their own flag only, ignoring --full
NextCheck_IgnoresFull(c, f) ==
    CASE c = BASIC -> "ut_start"
      [] c = UNIT -> "it_start"
      [] c = INTEGRATION -> "ex_start"
      [] c = EXAMPLES -> "doc_start"
      [] c = DOCUMENTATION -> "pv"
      [] c = PATTERNS -> IF f.git_bash THEN "gb_start"
                         ELSE IF f.performance THEN "pf_start"
                         ELSE "ep_start"
      [] c = GITBASH -> IF f.performance THEN "pf_start" ELSE "ep_start"
      [] c = PERFORMANCE -> "ep_start"
      [] OTHER -> "report"

NextCheck(c, f) ==
    CASE c = BASIC -> "ut_start"
      [] c = UNIT -> "it_start"
      [] c = INTEGRATION -> "ex_start"
      [] c = EXAMPLES -> "doc_start"
      [] c = DOCUMENTATION -> "pv"
      [] c = PATTERNS -> IF GitBashWanted(f) THEN "gb_start"
                         ELSE IF PerformanceWanted(f) THEN "pf_start"
                         ELSE "ep_start"
      [] c = GITBASH -> IF PerformanceWanted(f) THEN "pf_start" ELSE "ep_start"
      [] c = PERFORMANCE -> "ep_start"
      [] OTHER -> "report"

\* "success = success and self.test_x()": nothing more runs after a failed step
Return_ShortCircuit ==
    /\ pc = "ret"
    /\ success' = (success /\ retval)
    /\ pc' = IF success /\ retval THEN NextCheck(cur, flags) ELSE "report"
    /\ cur' = ""
    /\ retval' = TRUE
    /\ all_passed' = TRUE
    /\ i' = 0
    /\ n' = 0
    /\ dir_exists' = TRUE
    /\ calls' = <<>>
    /\ UNCHANGED <<validator, cargo_calls, mainv>>

Return ==
    /\ pc = "ret"
    /\ success' = (success /\ retval)
    /\ pc' = NextCheck(cur, flags)
    /\ cur' = ""
    /\ retval' = TRUE
    /\ all_passed' = TRUE
    /\ i' = 0
    /\ n' = 0
    /\ dir_exists' = TRUE
    /\ calls' = <<>>
    /\ UNCHANGED <<validator, cargo_calls, mainv>>

----------------------------------------------------------------------------
\* generate_report and main

report_data(tr) ==
    [summary |-> [total_tests |-> tr.total_tests, passed_tests |-> tr.passed_tests,
                  failed_tests |-> tr.failed_tests],
     errors |-> tr.errors,
     performance |-> tr.performance]

\* open(output_file, "w") either succeeds or raises OSError
GenerateReport ==
    /\ pc = "report"
    /\ \E opened \in BOOLEAN :
        IF opened
        THEN /\ report' = <<report_data(validator.test_results)>>
             /\ report_success' = (validator.test_results.failed_tests = 0)
             /\ pc' = "main_ret"
             /\ UNCHANGED <<exit_code, aborted>>
        ELSE /\ aborted' = "Exception"
             /\ exit_code' = 1
             /\ pc' = "done"
             /\ UNCHANGED <<report, report_success>>
    /\ UNCHANGED <<validator, success, cur, retval, cargo_calls, locals, flags,
                   root_exists>>

\* "if success or report_success"
ExitCode_Or(suite_ok, report_ok) == IF suite_ok \/ report_ok THEN 0 ELSE 1

ExitCode(suite_ok, report_ok) == IF suite_ok /\ report_ok THEN 0 ELSE 1

MainReturn ==
    /\ pc = "main_ret"
    /\ exit_code' = ExitCode(success, report_success)
    /\ pc' = "done"
    /\ UNCHANGED <<validator, success, cur, retval, cargo_calls, locals, flags,
                   root_exists, report, report_success, aborted>>

\* Positions at which the process is blocked in subprocess.run
CargoPcs == {"bc_debug", "bc_release", "bc_all", "ut_run", "it_all", "it_files",
             "ex_build", "ex_run", "doc_build", "doc_test", "gb_tests",
             "gb_patterns", "pf_bench", "pf_test", "ep_run"}

InSubprocess ==
    /\ pc \in CargoPcs
    /\ pc = "it_files" => i <= Len(test_files)
    /\ pc = "gb_patterns" => i <= Len(test_patterns)
    /\ pc = "ex_run" => i <= n

\* Ctrl-C while a cargo command runs: the test method and the suite unwind
\* (their locals are gone) to "except KeyboardInterrupt" in main
KeyboardInterrupt ==
    /\ InSubprocess
    /\ aborted' = "KeyboardInterrupt"
    /\ exit_code' = 1
    /\ pc' = "done"
    /\ cur' = ""
    /\ retval' = TRUE
    /\ all_passed' = TRUE
    /\ i' = 0
    /\ n' = 0
    /\ dir_exists' = TRUE
    /\ calls' = <<>>
    /\ UNCHANGED <<validator, success, cargo_calls, flags, root_exists, report,
                   report_success>>

----------------------------------------------------------------------------
Next ==
    \/ RunValidationSuite
    \/ BasicStart \/ BasicDebug \/ BasicRelease \/ BasicAllFeatures
    \/ UnitStart \/ UnitRun
    \/ IntegrationStart \/ IntegrationAll \/ IntegrationFile \/ IntegrationComplete
    \/ ExamplesStart \/ ExamplesExists \/ ExamplesBuild \/ ExamplesRun
    \/ ExamplesComplete
    \/ DocumentationStart \/ DocumentationBuild \/ DocumentationTest
    \/ ValidatePathPatterns
    \/ GitBashStart \/ GitBashTests \/ GitBashPattern \/ GitBashComplete
    \/ PerformanceStart \/ PerformanceBench \/ PerformanceTest
    \/ ExecutableStart \/ ExecutableExists \/ ExecutableRun
    \/ Return
    \/ GenerateReport \/ MainReturn
    \/ KeyboardInterrupt

Spec == Init /\ [][Next]_vars
----------------------------------------------------------------------------
\* Vocabulary of the properties

tr == validator.test_results
Lines == validator.stdout
Started == SelectSeq(Lines, LAMBDA e : e.log = "info")
Completed == SelectSeq(Lines, LAMBDA e : e.log # "info")
Names(s) == [k \in 1..Len(s) |-> s[k].test]
Range(s) == {s[k] : k \in 1..Len(s)}
LastLine == Lines[Len(Lines)]

\* The checks a run with these flags is expected to make, in order.
Checklist(f) ==
    <<BASIC, UNIT, INTEGRATION, EXAMPLES, DOCUMENTATION, PATTERNS>>
    \o (IF f.git_bash \/ f.full_suite THEN <<GITBASH>> ELSE <<>>)
    \o (IF f.performance \/ f.full_suite THEN <<PERFORMANCE>> ELSE <<>>)
    \o <<EXECUTABLE>>

\* A test method is between its start_test and its complete_test.
CheckInProgress ==
    \/ pc \in CargoPcs \cup {"ex_exists", "ep_exists"}
    \/ pc = "done" /\ aborted = "KeyboardInterrupt"

\* run_validation_suite has returned and no exception ended it.
SuiteReturned ==
    \/ pc \in {"report", "main_ret"}
    \/ pc = "done" /\ aborted # "KeyboardInterrupt"

ReportWritten == report # <<>>

----------------------------------------------------------------------------
\* C1: whenever no check is in progress (after each complete_test, and when
\* generate_report is called) total_tests = passed_tests + failed_tests, and
\* every start_test has been followed by exactly one complete_test of the
\* same check.
C1_CountsBalance ==
    ~CheckInProgress =>
        /\ tr.total_tests = tr.passed_tests + tr.failed_tests
        /\ Names(Started) = Names(Completed)
        /\ \A k \in 1..Len(Lines) :
               (Lines[k].log = "info") <=> (k % 2 = 1)
        /\ \A k \in 1..Len(Lines) :
               k % 2 = 1 => Lines[k + 1].test = Lines[k].test

C1_Witness ==
    /\ pc = "report"
    /\ tr.total_tests = 9
    /\ tr.failed_tests = 3
    /\ tr.passed_tests = 6

\* C2: main returns 0 exactly when the library root exists, every check
\* passed and the report was written; in every other finished run it
\* returns 1.
C2_ExitCode ==
    pc = "done" =>
        /\ exit_code \in {0, 1}
        /\ exit_code = 0 <=>
               /\ root_exists
               /\ ReportWritten
               /\ Names(Completed) = Checklist(flags)
               /\ \A k \in 1..Len(Lines) : Lines[k].log # "error"

C2_Witness ==
    /\ pc = "done"
    /\ exit_code = 0
    /\ tr.total_tests = 9
    /\ cargo_calls > 15

\* C3: when the library root exists and no interrupt or exception ends the
\* suite, the checks started and completed are exactly the checklist of the
\* flags, whatever failed on the way.
C3_FailuresDoNotAbort ==
    (SuiteReturned /\ root_exists) =>
        /\ Names(Started) = Checklist(flags)
        /\ Names(Completed) = Checklist(flags)

C3_Witness ==
    /\ pc = "report"
    /\ root_exists
    /\ Len(Completed) = 9
    /\ Completed[1] = [log |-> "error", test |-> BASIC]
    /\ Completed[2] = [log |-> "error", test |-> UNIT]
    /\ Completed[9].test = EXECUTABLE

\* C4: the Git Bash check is started iff git_bash or full_suite, the
\* performance check iff performance or full_suite, and a completed suite
\* has total_tests = 7 + one for each of the two that ran.
C4_OptionalSteps ==
    /\ GITBASH \in Range(Names(Started)) => (flags.git_bash \/ flags.full_suite)
    /\ PERFORMANCE \in Range(Names(Started)) =>
           (flags.performance \/ flags.full_suite)
    /\ (SuiteReturned /\ root_exists) =>
           /\ (flags.git_bash \/ flags.full_suite) =>
                  GITBASH \in Range(Names(Started))
           /\ (flags.performance \/ flags.full_suite) =>
                  PERFORMANCE \in Range(Names(Started))
           /\ tr.total_tests =
                  7 + (IF flags.git_bash \/ flags.full_suite THEN 1 ELSE 0)
                    + (IF flags.performance \/ flags.full_suite THEN 1 ELSE 0)

C4_Witness ==
    /\ pc = "report"
    /\ flags = [performance |-> FALSE, git_bash |-> FALSE, full_suite |-> TRUE]
    /\ tr.total_tests = 9
    /\ GITBASH \in Range(Names(Started))
    /\ PERFORMANCE \in Range(Names(Started))

\* C5: with the library root missing no check is started and no command is
\* invoked, generate_report is still called, the report it writes has all
\* three counts 0 and no errors, and main returns 1.
C5_MissingRoot ==
    ~root_exists =>
        /\ pc \in {"suite", "report", "main_ret", "done"}
        /\ validator = InitValidator
        /\ cargo_calls = 0
        /\ aborted # "KeyboardInterrupt"
        /\ pc \in {"report", "main_ret", "done"} => ~success
        /\ (pc = "main_ret" \/ (pc = "done" /\ aborted = "")) => ReportWritten
        /\ ReportWritten =>
               report[1] = [summary |-> [total_tests |-> 0, passed_tests |-> 0,
                                         failed_tests |-> 0],
                            errors |-> <<>>, performance |-> {}]
        /\ pc = "done" => exit_code = 1

C5_Witness ==
    /\ ~root_exists
    /\ pc = "done"
    /\ ReportWritten
    /\ report[1].summary.total_tests = 0
    /\ exit_code = 1

\* C6: the errors list is always as long as failed_tests; a step changes
\* either only by adding one failure and appending one error entry, and
\* that step is a complete_test (it prints the check's error line).
C6_ErrorsMatchFailed ==
    /\ [](Len(tr.errors) = tr.failed_tests)
    /\ [][(tr.errors' # tr.errors \/ tr.failed_tests' # tr.failed_tests) =>
              /\ tr.failed_tests' = tr.failed_tests + 1
              /\ Len(tr.errors') = Len(tr.errors) + 1
              /\ SubSeq(tr.errors', 1, Len(tr.errors)) = tr.errors
              /\ Len(Lines') = Len(Lines) + 1
              /\ LastLine' = [log |-> "error",
                              test |-> tr.errors'[Len(tr.errors')].test]]_vars

C6_Witness ==
    /\ pc = "report"
    /\ tr.failed_tests = 4
    /\ Len(tr.errors) = 4

\* C7: an absent examples directory gives a passed Example Programs check
\* with no command run; Executable Path Reporting passes with its tests
\* directory absent (no command) or present (whatever the command did);
\* neither adds an error entry.
C7_SkippableStepsPass ==
    /\ (pc = "ret" /\ cur = EXAMPLES /\ ~dir_exists) =>
           /\ calls = <<>>
           /\ retval
           /\ LastLine = [log |-> "success", test |-> EXAMPLES]
           /\ \A k \in 1..Len(tr.errors) : tr.errors[k].test # EXAMPLES
    /\ (pc = "ret" /\ cur = EXECUTABLE) =>
           /\ retval
           /\ LastLine = [log |-> "success", test |-> EXECUTABLE]
           /\ Len(calls) = (IF dir_exists THEN 1 ELSE 0)
    /\ \A k \in 1..Len(tr.errors) : tr.errors[k].test # EXECUTABLE

C7_Witness ==
    /\ pc = "ret"
    /\ cur = EXAMPLES
    /\ ~dir_exists
    /\ tr.passed_tests >= 1

\* C8: every error entry carries the message of the command that failed
\* (its output, or the timeout or invocation message), never an empty
\* message.
C8_EveryFailureHasMessage ==
    \A k \in 1..Len(tr.errors) :
        /\ tr.errors[k].error # NoMessage
        /\ tr.errors[k].error[2] \in {OUT, TIMED_OUT, EXC}

\* C9 as stated: the Integration Tests result and return value are those of
\* the umbrella invocation "cargo test --test *".
C9_UmbrellaDecides ==
    (pc = "ret" /\ cur = INTEGRATION) =>
        /\ retval = calls[1].success
        /\ LastLine.log = (IF calls[1].success THEN "success" ELSE "error")

\* C9 amended: the umbrella invocation and all four sub-suites always run,
\* and the Integration Tests result and return value are true exactly when
\* all four sub-suites succeeded, whatever the umbrella invocation did.
C9_SubSuitesDecide ==
    (pc = "ret" /\ cur = INTEGRATION) =>
        /\ Len(calls) = 1 + Len(test_files)
        /\ calls[1].args = "test --test *"
        /\ \A k \in 1..Len(test_files) : calls[k + 1].args = test_files[k]
        /\ retval = (\A k \in 1..Len(test_files) : calls[k + 1].success)
        /\ LastLine = [log |-> IF retval THEN "success" ELSE "error",
                       test |-> INTEGRATION]

C9_Witness ==
    /\ pc = "ret"
    /\ cur = INTEGRATION
    /\ Len(calls) = 5
    /\ calls[1].success
    /\ ~calls[2].success
    /\ calls[5].success
    /\ ~retval

\* C10: once generate_report has returned, its result equals the suite's
\* result exactly when the library root exists; with the root missing the
\* suite's result is false and the report's is true.
C10_SignalsAgree ==
    (pc = "main_ret" \/ (pc = "done" /\ aborted = "")) =>
        /\ (success = report_success) <=> root_exists
        /\ ~root_exists => (~success /\ report_success)
        /\ report_success = (tr.failed_tests = 0)

C10_Witness ==
    /\ pc = "main_ret"
    /\ root_exists
    /\ ~success
    /\ ~report_success
    /\ tr.errors = <<[test |-> GITBASH, error |-> NoMessage]>>
====
